---- MODULE Spec2Model ----
(***************************************************************************)
(* TpmSecurityClient (security/tpm/src/tpm.ts): the machina connection     *)
(* state machine {disconnected, connecting, connected}, the persistent key *)
(* provisioner, the identity activation protocol, chunked signing and the  *)
(* registration id, over an abstract TPM that answers commands one at a    *)
(* time in the order they were issued.                                     *)
(*                                                                         *)
(* One step of the model is one turn of the Node event loop: either a      *)
(* public method call, or the delivery of one TPM response together with   *)
(* everything its continuation does synchronously (fsm.handle,             *)
(* fsm.transition, _onEnter, replay of deferred inputs, user callbacks).   *)
(***************************************************************************)
EXTENDS Naturals, Integers, Sequences, FiniteSets, TLC

\* ------------------------------------------------------------------ bounds
\* Number of public operations that enter the state machine in one behaviour.
MaxOps == 3
\* The same, in behaviours whose caller only retrieves the endorsement key and
\* activates one identity (SpecLifecycle).
MaxLifecycleOps == 4
\* The same, in behaviours that start from a module holding no key
\* (SpecProvision).
MaxProvisionOps == 3
\* Number of unexpected failures (non-success responses, malformed capability
\* answers, a transport that cannot be opened) injected in one behaviour.
MaxFaults == 2
\* TPM_PT.INPUT_BUFFER as reported by the module.
InputBufferSize == 2
\* Longest buffer handed to signWithIdentity.
MaxDataLen == 3
\* Number of operations, and longest buffer handed to signWithIdentity, in
\* behaviours that activate one identity and sign with it (SpecSigning).
MaxSigningOps == 2
MaxSignLen == 6

\* ------------------------------------------------------------- descriptors
Null == "null"
\* Public area of the primary created from _ekTemplate / _srkTemplate.
EkPub == "EKpub"
SrkPub == "SRKpub"
\* outPublic of a default-constructed response (the command did not succeed).
EmptyPub == "emptyPub"

TemplatePub(name) == IF name = "EK" THEN EkPub ELSE SrkPub

\* Activation blobs: "" is the empty buffer, "truncated" ends before field 5.
GoodBlobs == {"blobA", "blobB"}
Blobs == GoodBlobs \cup {"", "truncated"}

\* Field 5 of a well-formed activation blob: the identity key public area.
ParseIdKeyPub(blob) == IF blob = "blobA" THEN "idKeyA" ELSE "idKeyB"

\* dataToSign is modelled by its length: -1 is null, 0 the empty buffer.
DataLens == {-1, 0, 1, MaxDataLen}

\* lowercase(base32(sha256(ek))) without '=': a non-empty string that depends
\* on the endorsement key bytes only.
DeriveRegistrationId(ekPub) == IF ekPub = EkPub THEN "rid-of-EKpub" ELSE "rid-of-emptyPub"

Kinds == {"getEndorsementKey", "getStorageRootKey", "signWithIdentity",
          "activateSymmetricIdentity", "getRegistrationId"}

OpIds == 1..(IF MaxOps > MaxLifecycleOps THEN MaxOps ELSE MaxLifecycleOps)

VARIABLES
  fsmState,        \* machina state of _fsm
  ek,              \* this._ek
  srk,             \* this._srk
  idKeyPub,        \* this._idKeyPub
  registrationId,  \* this._registrationId ("" when not set)
  inputQueue,      \* machina's queue of deferred inputs (operation ids)
  pending,         \* TPM commands issued and not yet answered, oldest first
  tpm,             \* the module's persistent objects: EK, SRK, ID handles
  ops,             \* the public operations accepted so far and their callbacks
  nextOp,          \* id of the next operation
  faults,          \* failures injected so far
  thrown,          \* exception a public call raised to its caller; the model
                   \* follows the client no further than that call
  crashed,         \* an exception left a TPM continuation uncaught: the
                   \* process is gone
  dispatched,      \* operation ids in the order the connected state handled them
  completed,       \* operation ids in the order their callbacks were invoked
  held             \* per operation: module resources opened and not yet flushed

vars == <<fsmState, ek, srk, idKeyPub, registrationId, inputQueue, pending, tpm,
          ops, nextOp, faults, thrown, crashed, dispatched, completed, held>>

\* curPos and bytesLeft are the locals of _signData's chunking loop.
\* boot follows the connect made on behalf of the operation, deferred says
\* whether the connecting state deferred it, err is the error its protocol
\* run reported, prevId is the identity key the module held when the connected
\* state took the operation up ("concurrent" when another run was under way),
\* sent lists the data-carrying commands _signData has issued for it.
NoOp == [kind |-> "none", arg |-> "-", len |-> 0, calls |-> 0, res |-> "-", val |-> "-",
         curPos |-> 0, bytesLeft |-> 0, boot |-> "-", deferred |-> FALSE, err |-> "-",
         prevId |-> "-", sent |-> <<>>]

NoThrow == [by |-> "-", len |-> 0, err |-> "-"]

\* ---------------------------------------------------------------- Init
\* The state after the constructor: registrationId is the constructor argument
\* when one was given; the module was provisioned by an earlier run and holds
\* no identity key.
Init ==
  /\ fsmState = "disconnected"
  /\ ek = Null
  /\ srk = Null
  /\ idKeyPub = Null
  /\ registrationId \in {"", "abc123"}
  /\ inputQueue = <<>>
  /\ pending = <<>>
  /\ tpm = [EK |-> EkPub, SRK |-> SrkPub, ID |-> Null]
  /\ ops = [o \in OpIds |-> NoOp]
  /\ nextOp = 1
  /\ faults = 0
  /\ thrown = NoThrow
  /\ crashed = FALSE
  /\ dispatched = <<>>
  /\ completed = <<>>
  /\ held = [o \in OpIds |-> {}]

\* ------------------------------------------------- the synchronous machinery
\* The client state threaded through one synchronous run.  abort is set when
\* an exception unwinds the run; thr says whether this._tpm.connect throws.
Cur(thr) ==
  [fsm |-> fsmState, ek |-> ek, srk |-> srk, idk |-> idKeyPub, rid |-> registrationId,
   q |-> inputQueue, pend |-> pending, ops |-> ops, disp |-> dispatched,
   comp |-> completed, abort |-> FALSE, thr |-> thr]

Install(s) ==
  /\ fsmState' = s.fsm
  /\ ek' = s.ek
  /\ srk' = s.srk
  /\ idKeyPub' = s.idk
  /\ registrationId' = s.rid
  /\ inputQueue' = s.q
  /\ pending' = s.pend
  /\ ops' = s.ops
  /\ dispatched' = s.disp
  /\ completed' = s.comp

\* A command handed to this._tpm; its continuation runs when it is answered.
\* [lo, hi) is the slice of dataToSign the command carries; at is the
\* connection state in which the command was issued.
SigningCmds == {"HMAC", "HMAC_Start", "SequenceUpdate", "SequenceComplete"}

Issue(s, o, cmd, name, pub, lo, hi) ==
  [s EXCEPT !.pend = Append(@, [op |-> o, cmd |-> cmd, name |-> name, pub |-> pub,
                                lo |-> lo, hi |-> hi, at |-> s.fsm]),
            !.ops[o].sent = IF cmd \in SigningCmds
                              THEN Append(@, [cmd |-> cmd, lo |-> lo, hi |-> hi])
                              ELSE @]

\* The caller's callback of operation o is invoked with (err) or (null, val).
Callback(s, o, res, val) ==
  [s EXCEPT !.ops[o].calls = @ + 1, !.ops[o].res = res, !.ops[o].val = val,
            !.comp = Append(@, o)]

\* An exception leaves the handler of operation o and unwinds the run.
Throw(s, o, what) ==
  [s EXCEPT !.ops[o].res = what, !.abort = TRUE]

\* A continuation that hands the derived id to the caller and caches nothing.
RegistrationIdCallbackUncached(s, o, endorsementKey) ==
  Callback(s, o, "ok", DeriveRegistrationId(endorsementKey))

\* getRegistrationId's continuation of getEndorsementKey (lines 200-215).
RegistrationIdCallback(s, o, endorsementKey) ==
  LET rid == DeriveRegistrationId(endorsementKey)
  IN Callback([s EXCEPT !.rid = rid], o, "ok", rid)

\* The handlers of the connected state (lines 139-164), up to their first
\* suspension point.
ConnectedHandler(s, o) ==
  LET k == s.ops[o].kind
      s1 == [s EXCEPT !.disp = Append(@, o),
                      !.ops[o].prevId = IF s.pend = <<>> THEN tpm.ID ELSE "concurrent"]
  IN CASE k = "getEndorsementKey" ->
            IF s.ek = Null THEN Throw(s1, o, "TypeError") ELSE Callback(s1, o, "ok", s.ek)
       [] k = "getRegistrationId" ->
            IF s.ek = Null THEN Throw(s1, o, "TypeError") ELSE RegistrationIdCallback(s1, o, s.ek)
       [] k = "getStorageRootKey" ->
            IF s.srk = Null THEN Throw(s1, o, "TypeError") ELSE Callback(s1, o, "ok", s.srk)
       [] k = "signWithIdentity" ->
            Issue(s1, o, "GetCapability", "-", "-", 0, 0)
       [] k = "activateSymmetricIdentity" ->
            IF s.ops[o].arg = "truncated"
              THEN Throw(s1, o, "ParseError")
              ELSE Issue([s1 EXCEPT !.idk = ParseIdKeyPub(s.ops[o].arg)], o,
                         "GetRandom", "-", "-", 0, 0)

RECURSIVE Handle(_, _), Transition(_, _, _, _), ProcessQueue(_, _)

\* machina's processQueue: the deferred inputs are taken off the queue and
\* handled one after the other in the state the machine is in by then.
ProcessQueue(s, items) ==
  IF items = <<>> \/ s.abort THEN s
  ELSE ProcessQueue(Handle(s, Head(items)), Tail(items))

\* this._fsm.transition(new, callback, err) with callback belonging to o.
Transition(s, new, o, err) ==
  IF s.abort \/ s.fsm = new THEN s
  ELSE LET s1 == [s EXCEPT !.fsm = new]
           s2 == CASE new = "disconnected" ->
                        Callback([s1 EXCEPT !.ek = Null, !.srk = Null], o, err, "-")
                   [] new = "connecting" ->
                        IF s1.thr
                          THEN Transition([s1 EXCEPT !.ops[o].boot = "failed"],
                                          "disconnected", o, "ConnectError")
                          ELSE Issue([s1 EXCEPT !.ops[o].boot = "started"], o,
                                     "connect", "-", "-", 0, 0)
                   [] new = "connected" ->
                        Handle(s1, o)
       IN IF s2.abort \/ s2.fsm # new THEN s2
          ELSE ProcessQueue([s2 EXCEPT !.q = <<>>], s2.q)

\* this._fsm.handle(<operation o>): the handler of the current state.
Handle(s, o) ==
  IF s.abort THEN s
  ELSE CASE s.fsm = "disconnected" -> Transition(s, "connecting", o, "-")
         [] s.fsm = "connecting" -> [s EXCEPT !.q = Append(@, o), !.ops[o].deferred = TRUE]
         [] s.fsm = "connected" -> ConnectedHandler(s, o)

\* ------------------------------------------------------- public operations
NewOp(kind, arg, len) == [NoOp EXCEPT !.kind = kind, !.arg = arg, !.len = len]

\* One event-loop turn whose synchronous run is runThrows when
\* this._tpm.connect throws in it and runOpens otherwise: n failures are
\* injected by the answer itself, one more when this._tpm.connect throws in
\* the run (thr is only chosen when the run does open the transport).
\* An exception that unwinds the run reaches the caller of the public method
\* (kind, len) when there is one, and is uncaught otherwise.
Running == ~crashed /\ thrown = NoThrow

Deliver(runThrows, runOpens, n, kind, len) ==
  \E thr \in BOOLEAN :
    LET run == IF thr THEN runThrows ELSE runOpens
    IN /\ Running
       /\ thr => [runThrows EXCEPT !.thr = FALSE] # runOpens
       /\ faults + n + (IF thr THEN 1 ELSE 0) <= MaxFaults
       /\ Install(run)
       /\ faults' = faults + n + (IF thr THEN 1 ELSE 0)
       /\ thrown' = IF run.abort /\ kind # "-"
                      THEN [by |-> kind, len |-> len, err |-> run.ops[nextOp].res]
                      ELSE NoThrow
       /\ crashed' = (run.abort /\ kind = "-")

\* A public call that reaches this._fsm.handle.
Submit(limit, kind, arg, len) ==
  /\ nextOp <= limit
  /\ LET Run(thr) == Handle([Cur(thr) EXCEPT !.ops[nextOp] = NewOp(kind, arg, len)], nextOp)
     IN Deliver(Run(TRUE), Run(FALSE), 0, kind, len)
  /\ nextOp' = nextOp + 1
  /\ UNCHANGED <<tpm, held>>

\* A public call whose argument check throws before the state machine is used.
Raise(limit, kind, len, what) ==
  /\ Running
  /\ nextOp <= limit
  /\ thrown' = [by |-> kind, len |-> len, err |-> what]
  /\ UNCHANGED <<fsmState, ek, srk, idKeyPub, registrationId, inputQueue, pending,
                 tpm, ops, nextOp, faults, crashed, dispatched, completed, held>>

GetEndorsementKey ==
  Submit(MaxOps, "getEndorsementKey", "-", 0)

GetStorageRootKey ==
  Submit(MaxOps, "getStorageRootKey", "-", 0)

SignWithIdentity ==
  \E len \in DataLens :
    IF len = -1 \/ len = 0 THEN Raise(MaxOps, "signWithIdentity", len, "ReferenceError")
    ELSE IF idKeyPub = Null
      THEN Raise(MaxOps, "signWithIdentity", len, "InvalidOperationError")
    ELSE Submit(MaxOps, "signWithIdentity", "-", len)

ActivateSymmetricIdentity ==
  \E blob \in Blobs :
    IF blob = "" THEN Raise(MaxOps, "activateSymmetricIdentity", 0, "ReferenceError")
    ELSE Submit(MaxOps, "activateSymmetricIdentity", blob, 0)

GetRegistrationId ==
  IF registrationId # ""
    THEN /\ Running
         /\ nextOp <= MaxOps
         /\ ops' = [ops EXCEPT ![nextOp] =
                      [NewOp("getRegistrationId", "-", 0) EXCEPT
                         !.calls = 1, !.res = "ok", !.val = registrationId]]
         /\ completed' = Append(completed, nextOp)
         /\ nextOp' = nextOp + 1
         /\ thrown' = NoThrow
         /\ UNCHANGED <<fsmState, ek, srk, idKeyPub, registrationId, inputQueue,
                        pending, tpm, faults, crashed, dispatched, held>>
    ELSE Submit(MaxOps, "getRegistrationId", "-", 0)

\* ------------------------------------------------------------ TPM answers
\* The oldest unanswered command, and the run state once it is taken off.
Cmd == Head(pending)

Rest(thr) == [Cur(thr) EXCEPT !.pend = Tail(pending)]

Answered(cmd, name) ==
  /\ pending # <<>>
  /\ Cmd.cmd = cmd
  /\ Cmd.name = name

\* The err branch of the connected handlers (lines 147-149, 157-159).
\* A failure handler that reports the error and stays connected.
ConnectedFailureStaysConnected(s, o) ==
  Callback([s EXCEPT !.ops[o].err = "SecurityDeviceError"], o, "SecurityDeviceError", "-")

ConnectedFailure(s, o) ==
  Transition([s EXCEPT !.ops[o].err = "SecurityDeviceError"], "disconnected", o,
             "SecurityDeviceError")

\* A bootstrap that enters the connected state once the EK is there.
ProvisionedWithoutSrk(s, o, name, pub) ==
  Transition([s EXCEPT !.ek = pub, !.ops[o].boot = "done"], "connected", o, "-")

\* callback(null, pub) of _createPersistentPrimary inside connecting._onEnter
\* (lines 113-127).
Provisioned(s, o, name, pub) ==
  IF name = "EK"
    THEN Issue([s EXCEPT !.ek = pub], o, "ReadPublic", "SRK", "-", 0, 0)
    ELSE Transition([s EXCEPT !.srk = pub, !.ops[o].boot = "done"], "connected", o, "-")

\* this._tpm.connect's continuation (lines 112-113).
TpmConnected ==
  /\ Answered("connect", "-")
  /\ LET Run(thr) == Issue(Rest(thr), Cmd.op, "ReadPublic", "EK", "-", 0, 0)
     IN Deliver(Run(TRUE), Run(FALSE), 0, "-", 0)
  /\ UNCHANGED <<tpm, held, nextOp>>

\* ReadPublic's continuation (lines 220-237).  The module answers SUCCESS when
\* the handle holds an object, HANDLE when it does not, or fails.
ReadPublicCreates(rc) == rc # "SUCCESS"

ReadPublicResponse ==
  \E name \in {"EK", "SRK"}, rc \in {"SUCCESS", "HANDLE", "FAILURE"} :
    /\ Answered("ReadPublic", name)
    /\ rc = "SUCCESS" => tpm[name] # Null
    /\ rc = "HANDLE" => tpm[name] = Null
    /\ LET Run(thr) ==
             IF ReadPublicCreates(rc)
               THEN Issue(Rest(thr), Cmd.op, "CreatePrimary", name, rc, 0, 0)
               ELSE Provisioned(Rest(thr), Cmd.op, name, tpm[name])
       IN Deliver(Run(TRUE), Run(FALSE), IF rc = "FAILURE" THEN 1 ELSE 0, "-", 0)
    /\ UNCHANGED <<tpm, held, nextOp>>

\* CreatePrimary's continuation (lines 224-226).  The response code is not
\* read; line 225 dereferences resp.outPublic.unique, which a response that
\* carries no public area ("none") does not have, while a default-constructed
\* public area ("empty") lets the code go on.
CreatePrimaryResponse ==
  \E name \in {"EK", "SRK"}, resp \in {"ok", "empty", "none"} :
    /\ Answered("CreatePrimary", name)
    /\ LET pub == IF resp = "ok" THEN TemplatePub(name) ELSE EmptyPub
           Run(thr) ==
             IF resp = "none" THEN Throw(Rest(thr), Cmd.op, "TypeError")
             ELSE Issue(Rest(thr), Cmd.op, "EvictControl", name, pub, 0, 0)
       IN Deliver(Run(TRUE), Run(FALSE), IF resp = "ok" THEN 0 ELSE 1, "-", 0)
    /\ held' = IF resp = "ok" THEN [held EXCEPT ![Cmd.op] = @ \cup {"primary"}] ELSE held
    /\ UNCHANGED <<tpm, nextOp>>

\* A provisioner that releases the transient handle only when the persist
\* succeeded, and hands on the descriptor at once when it did not.
PersistPrimaryResponseFlushOnSuccess ==
  \E name \in {"EK", "SRK"}, ok \in BOOLEAN :
    /\ Answered("EvictControl", name)
    /\ ok => Cmd.pub # EmptyPub /\ tpm[name] = Null
    /\ LET natural == Cmd.pub = EmptyPub \/ tpm[name] # Null
           Run(thr) == IF ok THEN Issue(Rest(thr), Cmd.op, "FlushContext", name, Cmd.pub, 0, 0)
                       ELSE Provisioned(Rest(thr), Cmd.op, name, Cmd.pub)
       IN Deliver(Run(TRUE), Run(FALSE), IF ok \/ natural THEN 0 ELSE 1, "-", 0)
    /\ tpm' = IF ok THEN [tpm EXCEPT ![name] = Cmd.pub] ELSE tpm
    /\ UNCHANGED <<held, nextOp>>

\* EvictControl's continuation in the provisioner (lines 226-228).  The module
\* persists the object only when it was created and the handle is free.
PersistPrimaryResponse ==
  \E name \in {"EK", "SRK"}, ok \in BOOLEAN :
    /\ Answered("EvictControl", name)
    /\ ok => Cmd.pub # EmptyPub /\ tpm[name] = Null
    /\ LET natural == Cmd.pub = EmptyPub \/ tpm[name] # Null
           Run(thr) == Issue(Rest(thr), Cmd.op, "FlushContext", name, Cmd.pub, 0, 0)
       IN Deliver(Run(TRUE), Run(FALSE), IF ok \/ natural THEN 0 ELSE 1, "-", 0)
    /\ tpm' = IF ok THEN [tpm EXCEPT ![name] = Cmd.pub] ELSE tpm
    /\ UNCHANGED <<held, nextOp>>

\* FlushContext's continuation in the provisioner (lines 228-231).
FlushPrimaryResponse ==
  \E name \in {"EK", "SRK"}, ok \in BOOLEAN :
    /\ Answered("FlushContext", name)
    /\ ok <=> "primary" \in held[Cmd.op]
    /\ LET Run(thr) == Provisioned(Rest(thr), Cmd.op, name, Cmd.pub)
       IN Deliver(Run(TRUE), Run(FALSE), 0, "-", 0)
    /\ held' = [held EXCEPT ![Cmd.op] = @ \ {"primary"}]
    /\ UNCHANGED <<tpm, nextOp>>

\* ----------------------------------------------------------------- signing
\* A loop that also sends a whole buffer as an update when it is the last.
LoopFnEager(s, o) ==
  LET curPos == s.ops[o].curPos
      bytesLeft == s.ops[o].bytesLeft
  IN IF bytesLeft >= InputBufferSize
       THEN [Issue(s, o, "SequenceUpdate", "-", "-", curPos, curPos + InputBufferSize)
               EXCEPT !.ops[o].bytesLeft = bytesLeft - InputBufferSize,
                      !.ops[o].curPos = curPos + InputBufferSize]
       ELSE Issue(s, o, "SequenceComplete", "-", "-", curPos, curPos + bytesLeft)

\* loopFn of _signData (lines 259-270).
LoopFn(s, o) ==
  LET curPos == s.ops[o].curPos
      bytesLeft == s.ops[o].bytesLeft
  IN IF bytesLeft > InputBufferSize
       THEN [Issue(s, o, "SequenceUpdate", "-", "-", curPos, curPos + InputBufferSize)
               EXCEPT !.ops[o].bytesLeft = bytesLeft - InputBufferSize,
                      !.ops[o].curPos = curPos + InputBufferSize]
       ELSE Issue(s, o, "SequenceComplete", "-", "-", curPos, curPos + bytesLeft)

\* GetCapability's continuation (lines 244-276): good is FALSE when the answer
\* does not hold exactly the INPUT_BUFFER property.
GetCapabilityResponse ==
  \E good \in BOOLEAN :
    /\ Answered("GetCapability", "-")
    /\ LET o == Cmd.op
           len == ops[o].len
           Run(thr) ==
             IF ~good THEN ConnectedFailure(Rest(thr), o)
             ELSE IF len <= InputBufferSize
               THEN Issue(Rest(thr), o, "HMAC", "-", "-", 0, len)
               ELSE Issue([Rest(thr) EXCEPT !.ops[o].curPos = 0, !.ops[o].bytesLeft = len],
                          o, "HMAC_Start", "-", "-", 0, 0)
       IN Deliver(Run(TRUE), Run(FALSE), IF good THEN 0 ELSE 1, "-", 0)
    /\ UNCHANGED <<tpm, held, nextOp>>

\* HMAC's continuation (lines 251-253).
HMACResponse ==
  /\ Answered("HMAC", "-")
  /\ LET Run(thr) == Callback(Rest(thr), Cmd.op, "ok", "signature")
     IN Deliver(Run(TRUE), Run(FALSE), 0, "-", 0)
  /\ UNCHANGED <<tpm, held, nextOp>>

\* HMAC_Start's continuation (lines 271-275).
HMACStartResponse ==
  /\ Answered("HMAC_Start", "-")
  /\ LET Run(thr) == LoopFn(Rest(thr), Cmd.op)
     IN Deliver(Run(TRUE), Run(FALSE), 0, "-", 0)
  /\ UNCHANGED <<tpm, held, nextOp>>

\* SequenceUpdate's continuation is loopFn itself (line 261).
SequenceUpdateResponse ==
  /\ Answered("SequenceUpdate", "-")
  /\ LET Run(thr) == LoopFn(Rest(thr), Cmd.op)
     IN Deliver(Run(TRUE), Run(FALSE), 0, "-", 0)
  /\ UNCHANGED <<tpm, held, nextOp>>

\* SequenceComplete's continuation (lines 266-268): it writes a log line.
SequenceCompleteDone(s, o) == s

SequenceCompleteResponse ==
  /\ Answered("SequenceComplete", "-")
  /\ LET Run(thr) == SequenceCompleteDone(Rest(thr), Cmd.op)
     IN Deliver(Run(TRUE), Run(FALSE), 0, "-", 0)
  /\ UNCHANGED <<tpm, held, nextOp>>

\* -------------------------------------------------------------- activation
\* The identity key the blob of operation o carries.
BlobKey(o) == ParseIdKeyPub(ops[o].arg)

\* A step of _activateSymmetricIdentity whose response code is checked: on
\* success the next command is issued, otherwise activateCallback gets a
\* SecurityDeviceError.  natural: the module refuses whatever happens.
GatedStep(ok, natural, next, nextName, nextPub) ==
  /\ ok => ~natural
  /\ LET Run(thr) ==
           IF ok THEN Issue(Rest(thr), Cmd.op, next, nextName, nextPub, 0, 0)
           ELSE ConnectedFailure(Rest(thr), Cmd.op)
     IN Deliver(Run(TRUE), Run(FALSE), IF ok \/ natural THEN 0 ELSE 1, "-", 0)
  /\ UNCHANGED nextOp

\* GetRandom's continuation (lines 307-308): the response code is not read,
\* StartAuthSession is issued whatever the module answered.
GetRandomResponse ==
  \E ok \in BOOLEAN :
    /\ Answered("GetRandom", "-")
    /\ LET Run(thr) == Issue(Rest(thr), Cmd.op, "StartAuthSession", "-", "-", 0, 0)
       IN Deliver(Run(TRUE), Run(FALSE), IF ok THEN 0 ELSE 1, "-", 0)
    /\ UNCHANGED <<tpm, held, nextOp>>

\* StartAuthSession's continuation (lines 308-319).
StartAuthSessionResponse ==
  \E ok \in BOOLEAN :
    /\ Answered("StartAuthSession", "-")
    /\ GatedStep(ok, FALSE, "PolicySecret", "-", "-")
    /\ held' = IF ok THEN [held EXCEPT ![Cmd.op] = @ \cup {"session"}] ELSE held
    /\ UNCHANGED tpm

\* PolicySecret's continuation (lines 319-330).
PolicySecretResponse ==
  \E ok \in BOOLEAN :
    /\ Answered("PolicySecret", "-")
    /\ GatedStep(ok, FALSE, "ActivateCredential", "-", "-")
    /\ UNCHANGED <<tpm, held>>

\* ActivateCredential's continuation (lines 330-346); Import is handed
\* this._idKeyPub as it is by then.
ActivateCredentialResponse ==
  \E ok \in BOOLEAN :
    /\ Answered("ActivateCredential", "-")
    /\ GatedStep(ok, FALSE, "Import", "-", idKeyPub)
    /\ UNCHANGED <<tpm, held>>

\* Import's continuation (lines 346-356).  The module refuses a public area
\* that does not belong to the duplication blob.
ImportResponse ==
  \E ok \in BOOLEAN :
    /\ Answered("Import", "-")
    /\ GatedStep(ok, Cmd.pub # BlobKey(Cmd.op), "Load", "-", idKeyPub)
    /\ UNCHANGED <<tpm, held>>

\* Load's continuation (lines 356-366).
LoadResponse ==
  \E ok \in BOOLEAN :
    /\ Answered("Load", "-")
    /\ GatedStep(ok, Cmd.pub # BlobKey(Cmd.op), "EvictControl", "ID_OLD", "-")
    /\ held' = IF ok THEN [held EXCEPT ![Cmd.op] = @ \cup {"idKey"}] ELSE held
    /\ UNCHANGED tpm

\* The continuation of the eviction of the previous identity key (lines
\* 366-372): allowErrors, the response code is not read.
EvictStaleResponse ==
  \E ok \in BOOLEAN :
    /\ Answered("EvictControl", "ID_OLD")
    /\ ok => tpm.ID # Null
    /\ LET Run(thr) == Issue(Rest(thr), Cmd.op, "EvictControl", "ID_NEW", "-", 0, 0)
       IN Deliver(Run(TRUE), Run(FALSE), IF ok \/ tpm.ID = Null THEN 0 ELSE 1, "-", 0)
    /\ tpm' = IF ok THEN [tpm EXCEPT !.ID = Null] ELSE tpm
    /\ UNCHANGED <<held, nextOp>>

\* The continuation of the persist of the new identity key (lines 372-382).
\* The module persists only at a free handle.
PersistIdKeyResponse ==
  \E ok \in BOOLEAN :
    /\ Answered("EvictControl", "ID_NEW")
    /\ GatedStep(ok, tpm.ID # Null, "FlushContext", "ID_KEY", "-")
    /\ tpm' = IF ok THEN [tpm EXCEPT !.ID = BlobKey(Cmd.op)] ELSE tpm
    /\ UNCHANGED held

\* FlushContext(hIdKey)'s continuation (lines 382-384): the code goes on
\* whatever the response code.
FlushIdKeyResponse ==
  \E ok \in BOOLEAN :
    /\ Answered("FlushContext", "ID_KEY")
    /\ LET Run(thr) == Issue(Rest(thr), Cmd.op, "FlushContext", "POLICY_SESS", "-", 0, 0)
       IN Deliver(Run(TRUE), Run(FALSE), IF ok THEN 0 ELSE 1, "-", 0)
    /\ held' = IF ok THEN [held EXCEPT ![Cmd.op] = @ \ {"idKey"}] ELSE held
    /\ UNCHANGED <<tpm, nextOp>>

\* FlushContext(policy session)'s continuation (lines 384-387).
FlushSessionResponse ==
  \E ok \in BOOLEAN :
    /\ Answered("FlushContext", "POLICY_SESS")
    /\ LET Run(thr) == Callback(Rest(thr), Cmd.op, "ok", "-")
       IN Deliver(Run(TRUE), Run(FALSE), IF ok THEN 0 ELSE 1, "-", 0)
    /\ held' = IF ok THEN [held EXCEPT ![Cmd.op] = @ \ {"session"}] ELSE held
    /\ UNCHANGED <<tpm, nextOp>>

\* ------------------------------------------------------------ specification
Next ==
  \/ GetEndorsementKey
  \/ GetStorageRootKey
  \/ SignWithIdentity
  \/ ActivateSymmetricIdentity
  \/ GetRegistrationId
  \/ TpmConnected
  \/ ReadPublicResponse
  \/ CreatePrimaryResponse
  \/ PersistPrimaryResponse
  \/ FlushPrimaryResponse
  \/ GetCapabilityResponse
  \/ HMACResponse
  \/ HMACStartResponse
  \/ SequenceUpdateResponse
  \/ SequenceCompleteResponse
  \/ GetRandomResponse
  \/ StartAuthSessionResponse
  \/ PolicySecretResponse
  \/ ActivateCredentialResponse
  \/ ImportResponse
  \/ LoadResponse
  \/ EvictStaleResponse
  \/ PersistIdKeyResponse
  \/ FlushIdKeyResponse
  \/ FlushSessionResponse

Spec == Init /\ [][Next]_vars

\* The lifecycle alone: a provisioned module, a caller that retrieves the
\* endorsement key and activates the identity of blobA, any number of times.
InitLifecycle ==
  /\ Init
  /\ registrationId = ""

LifecycleGetEndorsementKey ==
  Submit(MaxLifecycleOps, "getEndorsementKey", "-", 0)

LifecycleActivate ==
  Submit(MaxLifecycleOps, "activateSymmetricIdentity", "blobA", 0)

NextLifecycle ==
  \/ LifecycleGetEndorsementKey
  \/ LifecycleActivate
  \/ TpmConnected
  \/ ReadPublicResponse
  \/ CreatePrimaryResponse
  \/ PersistPrimaryResponse
  \/ FlushPrimaryResponse
  \/ GetRandomResponse
  \/ StartAuthSessionResponse
  \/ PolicySecretResponse
  \/ ActivateCredentialResponse
  \/ ImportResponse
  \/ LoadResponse
  \/ EvictStaleResponse
  \/ PersistIdKeyResponse
  \/ FlushIdKeyResponse
  \/ FlushSessionResponse

SpecLifecycle == InitLifecycle /\ [][NextLifecycle]_vars

\* Provisioning from scratch: a module that holds neither the EK nor the SRK,
\* and the same caller as in the lifecycle.
InitProvision ==
  /\ fsmState = "disconnected"
  /\ ek = Null
  /\ srk = Null
  /\ idKeyPub = Null
  /\ registrationId = ""
  /\ inputQueue = <<>>
  /\ pending = <<>>
  /\ tpm = [EK |-> Null, SRK |-> Null, ID |-> Null]
  /\ ops = [o \in OpIds |-> NoOp]
  /\ nextOp = 1
  /\ faults = 0
  /\ thrown = NoThrow
  /\ crashed = FALSE
  /\ dispatched = <<>>
  /\ completed = <<>>
  /\ held = [o \in OpIds |-> {}]

ProvisionGetEndorsementKey ==
  Submit(MaxProvisionOps, "getEndorsementKey", "-", 0)

ProvisionActivate ==
  Submit(MaxProvisionOps, "activateSymmetricIdentity", "blobA", 0)

NextProvision ==
  \/ ProvisionGetEndorsementKey
  \/ ProvisionActivate
  \/ TpmConnected
  \/ ReadPublicResponse
  \/ CreatePrimaryResponse
  \/ PersistPrimaryResponse
  \/ FlushPrimaryResponse
  \/ GetRandomResponse
  \/ StartAuthSessionResponse
  \/ PolicySecretResponse
  \/ ActivateCredentialResponse
  \/ ImportResponse
  \/ LoadResponse
  \/ EvictStaleResponse
  \/ PersistIdKeyResponse
  \/ FlushIdKeyResponse
  \/ FlushSessionResponse

SpecProvision == InitProvision /\ [][NextProvision]_vars

\* Signing alone: a caller that activates the identity of blobA and signs
\* buffers of every length up to MaxSignLen.
SigningActivate ==
  Submit(MaxSigningOps, "activateSymmetricIdentity", "blobA", 0)

SigningSign ==
  \E len \in 1..MaxSignLen :
    IF idKeyPub = Null
      THEN Raise(MaxSigningOps, "signWithIdentity", len, "InvalidOperationError")
      ELSE Submit(MaxSigningOps, "signWithIdentity", "-", len)

NextSigning ==
  \/ SigningActivate
  \/ SigningSign
  \/ TpmConnected
  \/ ReadPublicResponse
  \/ CreatePrimaryResponse
  \/ PersistPrimaryResponse
  \/ FlushPrimaryResponse
  \/ GetCapabilityResponse
  \/ HMACResponse
  \/ HMACStartResponse
  \/ SequenceUpdateResponse
  \/ SequenceCompleteResponse
  \/ GetRandomResponse
  \/ StartAuthSessionResponse
  \/ PolicySecretResponse
  \/ ActivateCredentialResponse
  \/ ImportResponse
  \/ LoadResponse
  \/ EvictStaleResponse
  \/ PersistIdKeyResponse
  \/ FlushIdKeyResponse
  \/ FlushSessionResponse

SpecSigning == InitLifecycle /\ [][NextSigning]_vars

\* Reconnection: a provisioned module, a caller that retrieves the
\* endorsement key any number of times and activates the identities of blobA
\* and blobB, each at most once.
ReconnectActivate ==
  \E blob \in GoodBlobs :
    /\ \A o \in OpIds : ops[o].arg # blob
    /\ Submit(MaxLifecycleOps, "activateSymmetricIdentity", blob, 0)

NextReconnect ==
  \/ LifecycleGetEndorsementKey
  \/ ReconnectActivate
  \/ TpmConnected
  \/ ReadPublicResponse
  \/ CreatePrimaryResponse
  \/ PersistPrimaryResponse
  \/ FlushPrimaryResponse
  \/ GetRandomResponse
  \/ StartAuthSessionResponse
  \/ PolicySecretResponse
  \/ ActivateCredentialResponse
  \/ ImportResponse
  \/ LoadResponse
  \/ EvictStaleResponse
  \/ PersistIdKeyResponse
  \/ FlushIdKeyResponse
  \/ FlushSessionResponse

SpecReconnect == InitLifecycle /\ [][NextReconnect]_vars

\* --------------------------------------------------------------- properties
IsActivation(o) == ops[o].kind = "activateSymmetricIdentity"

IsSigning(o) == ops[o].kind = "signWithIdentity"

\* The callback of o was invoked with (null, ...) / with an error.
Succeeded(o) == ops[o].calls >= 1 /\ ops[o].res = "ok"

GotError(o, err) == ops[o].calls >= 1 /\ ops[o].res = err

\* The connected state has taken o up.
Dispatched(o) == \E i \in 1..Len(dispatched) : dispatched[i] = o

DispatchCount(o) == Cardinality({i \in 1..Len(dispatched) : dispatched[i] = o})

\* The commands of the protocol run of o (not of a connect made for o) that
\* the module has not answered yet.
ProtocolCmds ==
  {"GetCapability", "HMAC", "HMAC_Start", "SequenceUpdate", "SequenceComplete",
   "GetRandom", "StartAuthSession", "PolicySecret", "ActivateCredential", "Import", "Load"}

IsProtocolCmd(c) == c.cmd \in ProtocolCmds \/ c.name \in {"ID_OLD", "ID_NEW", "ID_KEY", "POLICY_SESS"}

Awaiting(o) == {i \in 1..Len(pending) : pending[i].op = o /\ IsProtocolCmd(pending[i])}

\* The TPM commands (not the opening of the transport) awaiting a response.
CommandsAwaiting == {i \in 1..Len(pending) : pending[i].cmd # "connect"}

\* C2 (as claimed): the identity key descriptor is set only by an activation
\* that completed successfully; when every activation so far has ended in
\* failure (a blob that does not parse, a device error), _idKeyPub is still
\* unset, which is what makes signWithIdentity(data) raise
\* InvalidOperationError (line 182).
C2_UnsetAfterFailedActivation ==
  ( /\ \E o \in OpIds : IsActivation(o)
    /\ \A o \in OpIds :
         IsActivation(o) => ops[o].res \in {"SecurityDeviceError", "ParseError"} )
  => idKeyPub = Null

\* C7 (as claimed): a signWithIdentity call over data longer than the input
\* buffer gets the digest of the sequence-completion step; in the finite form,
\* once the module has answered every command of the chunked run, and the
\* client is still connected, the caller's callback has been invoked.
C7_ChunkedSigningCallsBack ==
  \A o \in OpIds :
    (IsSigning(o) /\ ops[o].curPos > 0 /\ Awaiting(o) = {} /\ fsmState = "connected")
      => ops[o].calls = 1

\* C9 (as claimed): at most one TPM command issued by the client is awaiting
\* its response.
C9_OneCommandAwaiting == Cardinality(CommandsAwaiting) <= 1

\* C10 (as claimed): no TPM command is issued while the connection state is
\* disconnected.
C10_NoCommandWhileDisconnected ==
  \A i \in 1..Len(pending) : pending[i].at # "disconnected"

\* This step is a call of the public operation kind that was accepted (it got
\* an operation of its own) / that raised to its caller.
Accepted(kind) == nextOp' = nextOp + 1 /\ ops'[nextOp].kind = kind

Raised(kind) == thrown = NoThrow /\ thrown'.by = kind

NoSuccessfulActivation == \A o \in OpIds : IsActivation(o) => ~Succeeded(o)

\* The state of the client and of the module, without the bookkeeping of calls.
clientState == <<fsmState, ek, srk, idKeyPub, registrationId, inputQueue, pending, tpm>>

\* C1 (as claimed): signWithIdentity with null or empty data raises the
\* validation error, signWithIdentity with data before any successful
\* activation raises InvalidOperationError, and neither issues a command nor
\* changes the connection state or the cached descriptors.
C1_SigningPreconditions ==
  [][ /\ Accepted("signWithIdentity") => ops'[nextOp].len >= 1 /\ ~NoSuccessfulActivation
      /\ Raised("signWithIdentity") =>
           /\ thrown'.err = (IF thrown'.len <= 0 THEN "ReferenceError"
                             ELSE "InvalidOperationError")
           /\ UNCHANGED clientState ]_vars

\* C3 (as claimed): an activation run that ends with a device error leaves
\* the identity key that was persisted before the run where it was.  The run
\* of o is one that started with no other run under way, and no later
\* activation has been taken up since.
C3_FailureContainment ==
  \A o \in OpIds :
    ( /\ IsActivation(o) /\ GotError(o, "SecurityDeviceError")
      /\ ops[o].prevId \notin {"-", "concurrent"}
      /\ \A p \in OpIds : (p > o /\ IsActivation(p)) => ~Dispatched(p) )
    => tpm.ID = ops[o].prevId

\* C5 (as claimed): operations A then B deferred while connecting are
\* dispatched, and complete, in the order A then B.
C5_DeferredFifo ==
  \A a, b \in OpIds :
    (a < b /\ ops[a].deferred /\ ops[b].deferred) =>
      /\ \A i \in 1..Len(dispatched) :
           dispatched[i] = b => \E j \in 1..(i - 1) : dispatched[j] = a
      /\ \A i \in 1..Len(completed) :
           completed[i] = b => \E j \in 1..(i - 1) : completed[j] = a

\* C6 (as claimed): an operation submitted while disconnected, which made the
\* client connect, is dispatched exactly once in the connected state when its
\* connect succeeded, and gets the connect error, undispatched, when its
\* connect failed.
C6_DispatchedOnceAfterConnect ==
  \A o \in OpIds :
    /\ (ops[o].boot = "done" /\ ~ops[o].deferred) => DispatchCount(o) = 1
    /\ ops[o].boot = "failed" =>
         GotError(o, "ConnectError") /\ ops[o].calls = 1 /\ ~Dispatched(o)

\* The transport opening issued on behalf of operation o.
ConnectFor(o) ==
  [op |-> o, cmd |-> "connect", name |-> "-", pub |-> "-", lo |-> 0, hi |-> 0,
   at |-> "connecting"]

\* C4: when the signing or activation run of an operation reports an error
\* while the client is connected, the client is disconnected, _ek and _srk are
\* cleared, and the callback of that operation is invoked once with that
\* error; a public operation handed to the state machine while disconnected
\* starts a connect (whose provisioning follows, see Provisioned) or, when the
\* transport cannot be opened, gets the connect error.
C4_FailureDisconnects ==
  [][ /\ \A o \in OpIds :
           (fsmState = "connected" /\ ops[o].err = "-" /\ ops'[o].err # "-") =>
             /\ fsmState' = "disconnected"
             /\ ek' = Null /\ srk' = Null
             /\ ops'[o].calls = ops[o].calls + 1
             /\ ops'[o].res = ops'[o].err
      /\ ( /\ fsmState = "disconnected"
           /\ \E k \in Kinds : Accepted(k)
           /\ ~(Accepted("getRegistrationId") /\ registrationId # "") ) =>
             \/ /\ ops'[nextOp].boot = "started"
                /\ fsmState' = "connecting"
                /\ pending' = Append(pending, ConnectFor(nextOp))
             \/ /\ ops'[nextOp].boot = "failed"
                /\ fsmState' = "disconnected"
                /\ ops'[nextOp].calls = 1 /\ ops'[nextOp].res = "ConnectError" ]_vars

\* An operation failed while connected and a later one started a new connect.
C4_Witness ==
  \E o, p \in OpIds :
    /\ o < p /\ Dispatched(o)
    /\ ops[o].err = "SecurityDeviceError" /\ GotError(o, "SecurityDeviceError")
    /\ ops[p].boot = "started" /\ ~ops[p].deferred
    /\ fsmState = "connecting" /\ ek = Null

IsRegistrationId(o) == ops[o].kind = "getRegistrationId"

C11_DisconnectedCleared ==
  fsmState = "disconnected" => (ek = Null /\ srk = Null)

\* C12 (as claimed): the provisioner creates the key only after the not-found
\* answer (TPM_RC.HANDLE) to ReadPublic; after any other non-success answer no
\* CreatePrimary is issued.  A CreatePrimary command carries, in pub, the
\* response code of the ReadPublic that led to it.
C12_CreateOnlyWhenNotFound ==
  \A i \in 1..Len(pending) :
    pending[i].cmd = "CreatePrimary" => pending[i].pub = "HANDLE"

\* This step is the delivery of the answer to the oldest command.
ResponseStep == pending # <<>> /\ nextOp' = nextOp /\ pending' # pending

\* The commands issued in this step, oldest first.
IssuedNow ==
  IF ResponseStep THEN SubSeq(pending', Len(pending), Len(pending'))
  ELSE SubSeq(pending', Len(pending) + 1, Len(pending'))

CreatingCmds == {"CreatePrimary", "EvictControl", "FlushContext"}

\* The descriptor the bootstrap has cached for the key name after this step.
CachedNext(name) == IF name = "EK" THEN ek' ELSE srk'

\* C13 (as claimed): when ReadPublic is answered for a key the module holds
\* at the persistent handle, the provisioner issues no CreatePrimary,
\* EvictControl or FlushContext, leaves the module's persistent objects as
\* they are and hands on the descriptor of the persisted object; an object
\* persisted at the EK or SRK handle stays what it is, so a second
\* provisioning finds the descriptor of the first.
C13_IdempotentProvisioning ==
  [][ /\ (ResponseStep /\ Cmd.cmd = "ReadPublic" /\ tpm[Cmd.name] # Null) =>
             /\ \A i \in 1..Len(IssuedNow) : IssuedNow[i].cmd \notin CreatingCmds
             /\ tpm' = tpm
             /\ CachedNext(Cmd.name) = tpm[Cmd.name]
      /\ \A name \in {"EK", "SRK"} : tpm[name] # Null => tpm'[name] = tpm[name] ]_vars

\* The provisioner has called back for the key of the command being answered.
ProvisionerDone(name) ==
  ResponseStep /\ Cmd.name = name /\ Cmd.cmd \in {"ReadPublic", "FlushContext"}

\* Operation o is taken up by the connected state in this step.
DispatchedNow(o) ==
  Cardinality({i \in 1..Len(dispatched') : dispatched'[i] = o}) > DispatchCount(o)

\* C14: ReadPublic(EK) is issued only by the continuation of the transport's
\* connect, for the same bootstrap; ReadPublic(SRK) only in the step in which
\* the provisioner called back for the EK of that bootstrap, _ek being set;
\* the connected state is entered only in the step in which the provisioner
\* called back for the SRK, _srk being set; and an operation that made the
\* client connect is dispatched (its connect callback resolved with success)
\* only in such a step of its own bootstrap.  "Succeeded" is the provisioner
\* calling back without an error.
C14_ConnectingOrder ==
  [][ /\ \A i \in 1..Len(IssuedNow) :
           LET c == IssuedNow[i]
           IN /\ (c.cmd = "ReadPublic" /\ c.name = "EK") =>
                   ResponseStep /\ Cmd.cmd = "connect" /\ Cmd.op = c.op
              /\ (c.cmd = "ReadPublic" /\ c.name = "SRK") =>
                   ProvisionerDone("EK") /\ Cmd.op = c.op /\ ek' # Null
              /\ c.cmd = "connect" => c.at = "connecting" /\ fsmState' = "connecting"
      /\ (fsmState # "connected" /\ fsmState' = "connected") =>
           ProvisionerDone("SRK") /\ srk' # Null /\ ops'[Cmd.op].boot = "done"
      /\ \A o \in OpIds :
           (ops[o].boot = "started" /\ DispatchedNow(o)) =>
             /\ ProvisionerDone("SRK") /\ Cmd.op = o
             /\ fsmState # "connected" /\ fsmState' = "connected" ]_vars

\* A bootstrap that had to create the EK went on to the SRK and entered the
\* connected state, where its operation was dispatched.
C14_Witness ==
  \E o \in OpIds :
    /\ ops[o].boot = "done" /\ Dispatched(o)
    /\ fsmState = "connected" /\ ek = EkPub /\ srk = SrkPub
    /\ faults >= 1 /\ ops[o].kind = "getStorageRootKey" /\ Succeeded(o)

\* The commands of _activateSymmetricIdentity up to the persist, in the order
\* of the source; the two EvictControl commands go by their names.
ActivationOrder ==
  <<"GetRandom", "StartAuthSession", "PolicySecret", "ActivateCredential", "Import",
    "Load", "ID_OLD", "ID_NEW">>

StepOf(c) == IF c.cmd = "EvictControl" THEN c.name ELSE c.cmd

IsActivationStep(c) == \E k \in 1..Len(ActivationOrder) : ActivationOrder[k] = StepOf(c)

Position(c) == CHOOSE k \in 1..Len(ActivationOrder) : ActivationOrder[k] = StepOf(c)

\* C15 (as claimed): every command of the activation after the first is
\* issued by the continuation of the command before it, in the fixed order,
\* and only when that command reported success (the eviction of the stale
\* key excepted); after a non-success answer to any other command of the
\* sequence nothing is issued and the callback gets a SecurityDeviceError.
\* An injected non-success answer is a step that counts a fault.
C15_ActivationOrder ==
  [][ /\ \A i \in 1..Len(IssuedNow) :
           LET c == IssuedNow[i]
           IN (IsActivationStep(c) /\ Position(c) > 1) =>
                /\ ResponseStep /\ IsActivationStep(Cmd) /\ Cmd.op = c.op
                /\ Position(Cmd) = Position(c) - 1
                /\ StepOf(Cmd) # "ID_OLD" => faults' = faults
      /\ ( /\ ResponseStep /\ IsActivationStep(Cmd) /\ StepOf(Cmd) # "ID_OLD"
           /\ faults' > faults /\ fsmState = "connected" ) =>
             /\ IssuedNow = <<>>
             /\ ops'[Cmd.op].calls = ops[Cmd.op].calls + 1
             /\ ops'[Cmd.op].res = "SecurityDeviceError" ]_vars

\* The callback of o is invoked with success in this step.
AcknowledgedNow(o) == ops'[o].calls = ops[o].calls + 1 /\ ops'[o].res = "ok"

\* C16 (as claimed): when an activation acknowledges success, the key of its
\* blob is the one persisted at the identity key handle and _idKeyPub is the
\* descriptor parsed from its blob; and the answer to the last release step,
\* whatever it is, leads to the acknowledgement.
C16_AcknowledgedKeyInstalled ==
  [][ /\ \A o \in OpIds :
           (IsActivation(o) /\ AcknowledgedNow(o)) =>
             tpm'.ID = BlobKey(o) /\ idKeyPub' = BlobKey(o)
      /\ (ResponseStep /\ Cmd.name = "POLICY_SESS") =>
           AcknowledgedNow(Cmd.op) ]_vars

Chunk(cmd, lo, hi) == [cmd |-> cmd, lo |-> lo, hi |-> hi]

\* The commands the claim expects for a buffer of len bytes: with
\* len = k * InputBufferSize + r and 0 < r <= InputBufferSize, one start, k
\* updates of InputBufferSize consecutive bytes, one completion of r bytes.
ExpectedSent(len) ==
  IF len <= InputBufferSize THEN <<Chunk("HMAC", 0, len)>>
  ELSE LET k == (len - 1) \div InputBufferSize
       IN <<Chunk("HMAC_Start", 0, 0)>>
          \o [i \in 1..k |->
                Chunk("SequenceUpdate", (i - 1) * InputBufferSize, i * InputBufferSize)]
          \o <<Chunk("SequenceComplete", k * InputBufferSize, len)>>

IsPrefix(a, b) == Len(a) <= Len(b) /\ a = SubSeq(b, 1, Len(a))

\* C17: the data-carrying commands _signData issues for a buffer are, at any
\* moment, the first ones of the expected sequence, and they are the whole of
\* it once the run, its capability query answered as expected, has no command
\* left unanswered.
C17_ChunkedSigning ==
  \A o \in OpIds :
    IsSigning(o) =>
      /\ IsPrefix(ops[o].sent, ExpectedSent(ops[o].len))
      /\ (Dispatched(o) /\ Awaiting(o) = {} /\ ops[o].err = "-") =>
           ops[o].sent = ExpectedSent(ops[o].len)

\* A buffer of two full chunks and a full last one has been sent whole.
C17_Witness ==
  \E o \in OpIds :
    /\ IsSigning(o) /\ ops[o].len = MaxSignLen /\ Awaiting(o) = {}
    /\ Len(ops[o].sent) >= 4
    /\ ops[o].sent[Len(ops[o].sent)].cmd = "SequenceComplete"
    /\ ops[o].sent[Len(ops[o].sent)].hi = MaxSignLen

IsPrimary(name) == name \in {"EK", "SRK"}

\* C18: in the provisioner, the answer to CreatePrimary leads to EvictControl
\* and nothing else, the answer to that EvictControl, success or not, leads to
\* FlushContext of the transient handle and nothing else, neither step hands
\* the descriptor on, and the answer to FlushContext hands on the descriptor
\* of the created object.
C18_FlushAfterPersist ==
  [][ (ResponseStep /\ IsPrimary(Cmd.name) /\ ~crashed') =>
        /\ Cmd.cmd = "CreatePrimary" =>
             /\ Len(IssuedNow) = 1 /\ IssuedNow[1].cmd = "EvictControl"
             /\ IssuedNow[1].name = Cmd.name /\ IssuedNow[1].op = Cmd.op
             /\ UNCHANGED <<fsmState, ek, srk, tpm>>
        /\ Cmd.cmd = "EvictControl" =>
             /\ Len(IssuedNow) = 1 /\ IssuedNow[1].cmd = "FlushContext"
             /\ IssuedNow[1].name = Cmd.name /\ IssuedNow[1].op = Cmd.op
             /\ IssuedNow[1].pub = Cmd.pub
             /\ UNCHANGED <<fsmState, ek, srk>>
        /\ Cmd.cmd = "FlushContext" =>
             /\ CachedNext(Cmd.name) = Cmd.pub
             /\ held'[Cmd.op] = held[Cmd.op] \ {"primary"} ]_vars

\* The EK was created, its persist was refused, and the bootstrap went on,
\* the transient handle released.
C18_Witness ==
  /\ ek = EkPub /\ tpm.EK = Null
  /\ fsmState \in {"connecting", "connected"}
  /\ \A o \in OpIds : "primary" \notin held[o]
  /\ faults >= 1

\* C19 (as claimed): whenever the connection state is connected, the cached
\* endorsement key and storage root key descriptors are both non-null.
C19_ConnectedHasKeys ==
  fsmState = "connected" => (ek # Null /\ srk # Null)

\* C20 (as claimed): every getEndorsementKey, getStorageRootKey or
\* activateSymmetricIdentity accepted by the state machine has its callback
\* invoked exactly once when the module answers every command; in the finite
\* form, no callback is invoked twice, and once the module has answered
\* everything (nothing is pending, no exception has ended the program) every
\* such operation has had its callback.
C20_EveryCallbackOnce ==
  \A o \in OpIds :
    ops[o].kind \in {"getEndorsementKey", "getStorageRootKey", "activateSymmetricIdentity"} =>
      /\ ops[o].calls <= 1
      /\ (pending = <<>> /\ Running) => ops[o].calls = 1

\* Operation t was submitted in the disconnected state and made the client
\* connect, and every operation submitted after it up to d was deferred by the
\* connecting state.
DeferredBehind(t, d) ==
  /\ t < d
  /\ ops[t].boot # "-" /\ ~ops[t].deferred
  /\ \A p \in (t + 1)..d : ops[p].deferred

\* Position of the first dispatch of o in the connected state.
FirstDispatch(o) ==
  CHOOSE i \in 1..Len(dispatched) :
    dispatched[i] = o /\ \A j \in 1..(i - 1) : dispatched[j] # o

\* C21 (as claimed): when the connect made for an operation submitted in the
\* disconnected state has succeeded, that operation is dispatched in the
\* connected state before any operation submitted after it and deferred while
\* connecting: a deferred operation is dispatched only after the trigger.
C21_TriggerBeforeDeferred ==
  \A t, d \in OpIds :
    (DeferredBehind(t, d) /\ ops[t].boot = "done" /\ Dispatched(d)) =>
      (Dispatched(t) /\ FirstDispatch(t) < FirstDispatch(d))

\* C22 (as claimed): whenever the callback of an activation has been invoked,
\* with success or with an error, the run of that activation holds no policy
\* session and no transient key handle in the module: everything it opened
\* has been flushed.
C22_ActivationReleasesResources ==
  \A o \in OpIds :
    (IsActivation(o) /\ ops[o].calls >= 1) => held[o] = {}

====
